---- MODULE Spec2Model ----
(***************************************************************************)
(* Model of steampipe-plugin-mongodb: the schema analyzer                  *)
(* (mongodb/analyzer/mongoschema.go) and the column flattener              *)
(* (mongodb/utils.go).                                                     *)
(*                                                                         *)
(* Types are records with a tag.  A StructType (a Go map) is a function    *)
(* from field names to types, a MixedType (a Go slice) is a sequence.      *)
(* GoType renders a type as the very string the Go code builds; equality   *)
(* of types inside Merge is equality of those strings, as in the code.     *)
(* A Go map is ranged over in an unspecified order: every operator that    *)
(* ranges over a map takes the enumeration order as a parameter, and the   *)
(* actions choose it nondeterministically.                                 *)
(***************************************************************************)
EXTENDS Integers, Sequences, FiniteSets, TLC

(***************************************************************************)
(* Bounds                                                                  *)
(***************************************************************************)
MaxUpdates == 3
MaxArrayLen == 2

\* Largest number of documents of a modelled collection.
MaxCollection == 5

(***************************************************************************)
(* Field names of the modelled documents.  "a.b" is a single field name    *)
(* that contains a dot, "x*" is a name isValidFieldName rejects.           *)
(***************************************************************************)
FieldNames == {"a", "b", "a.b", "x*"}

\* Two enumeration orders of a map's keys (a Go range over a map may
\* produce either, and a different one on each range).
Order1 == <<"a", "a.b", "b", "x*">>

Order2 == <<"x*", "b", "a.b", "a">>

Orders == {Order1, Order2}

\* <<order of the receiver's rendering, order of the argument's rendering>>
OrderPairs == {<<Order1, Order1>>, <<Order1, Order2>>}

(***************************************************************************)
(* Types                                                                   *)
(***************************************************************************)
LiteralType(l) == [tag |-> "Literal", lit |-> l]

NilType == LiteralType("nil")

PrimitiveType(k) == [tag |-> "Primitive", kind |-> k]

MixedType(ms) == [tag |-> "Mixed", members |-> ms]

SliceType(t) == [tag |-> "Slice", elem |-> t]

StructType(f) == [tag |-> "Struct", fields |-> f]

EmptyMap == [k \in {} |-> NilType]

PrimitiveKinds ==
  {"PrimitiveBool", "PrimitiveDouble", "PrimitiveInt32", "PrimitiveInt64",
   "PrimitiveDecimal", "PrimitiveString", "PrimitiveBinary",
   "PrimitiveObjectId", "PrimitiveRegex", "PrimitiveJS",
   "PrimitiveScopedCode", "PrimitiveSymbol", "PrimitiveDateTime",
   "PrimitiveTimestamp", "PrimitiveDBPointer", "PrimitiveMinKey",
   "PrimitiveMaxKey", "PrimitiveUndefined"}

PrimitiveGoType(k) ==
  CASE k = "PrimitiveBool" -> "bool"
    [] k = "PrimitiveDouble" -> "float64"
    [] k = "PrimitiveInt32" -> "int32"
    [] k = "PrimitiveInt64" -> "int64"
    [] k = "PrimitiveDecimal" -> "bson.Decimal128"
    [] k = "PrimitiveString" -> "string"
    [] k = "PrimitiveBinary" -> "bson.Binary"
    [] k = "PrimitiveObjectId" -> "bson.ObjectId"
    [] k = "PrimitiveRegex" -> "bson.Regex"
    [] k = "PrimitiveJS" -> "bson.JavaScript"
    [] k = "PrimitiveScopedCode" -> "bson.CodeWithScope"
    [] k = "PrimitiveSymbol" -> "bson.Symbol"
    [] k = "PrimitiveDateTime" -> "bson.DateTime"
    [] k = "PrimitiveTimestamp" -> "time.Time"
    [] k = "PrimitiveDBPointer" -> "bson.DBPointer"
    [] k = "PrimitiveMinKey" -> "bson.MinKey"
    [] k = "PrimitiveMaxKey" -> "bson.MaxKey"
    [] k = "PrimitiveUndefined" -> "bson.Undefined"

\* isValidFieldName: not empty and without '!' or '*'.
isValidFieldName(n) == n # "" /\ n \notin {"x*"}

\* makeFieldName on the modelled names: split on non-word characters,
\* title-case every part, join.
makeFieldName(n) ==
  CASE n = "a" -> "A"
    [] n = "b" -> "B"
    [] n = "a.b" -> "AB"
    [] n = "x*" -> "X"

RECURSIVE GoType(_, _)
RECURSIVE StructLines(_, _, _)

\* The lines StructType.GoType prints for the keys ord[i..], in that order.
\* (The Go back quote around the tag is written ' here: a TLA+ string
\* cannot hold a back quote.)
StructLines(f, ord, i) ==
  IF i > Len(ord) THEN ""
  ELSE (IF ord[i] \in DOMAIN f /\ isValidFieldName(ord[i])
        THEN makeFieldName(ord[i]) \o " " \o GoType(f[ord[i]], ord)
             \o " 'bson:\"" \o ord[i] \o ",omitempty\"'\n"
        ELSE "")
       \o StructLines(f, ord, i + 1)

\* t.GoType(gen), with ord the order in which maps are ranged over.
GoType(t, ord) ==
  CASE t.tag = "Literal" -> t.lit
    [] t.tag = "Mixed" -> "interface{}"
    [] t.tag = "Primitive" -> PrimitiveGoType(t.kind)
    [] t.tag = "Slice" -> "[]" \o GoType(t.elem, ord)
    [] t.tag = "Struct" -> "struct {\n" \o StructLines(t.fields, ord, 1) \o "}"

\* e.GoType(gen) == t.GoType(gen)
SameGoType(e, t, o) == GoType(e, o[1]) = GoType(t, o[2])

\* Index of the first StructType member of a MixedType's members, 0 if none.
FirstStruct(ms) ==
  IF \E i \in 1..Len(ms) : ms[i].tag = "Struct"
  THEN CHOOSE i \in 1..Len(ms) :
         /\ ms[i].tag = "Struct"
         /\ \A j \in 1..(i - 1) : ms[j].tag # "Struct"
  ELSE 0

RECURSIVE Merge(_, _, _)

LiteralMerge(l, t, o) ==
  IF SameGoType(l, t, o) THEN l ELSE MixedType(<<l, t>>)

MixedMerge(m, t, o) ==
  IF \E i \in 1..Len(m.members) : SameGoType(m.members[i], t, o)
  THEN m
  ELSE MixedType(Append(m.members, t))

PrimitiveMerge(p, t, o) ==
  IF SameGoType(p, t, o) THEN p ELSE MixedType(<<p, t>>)

\* StructMerge without the branch that adds the fields only t has.
StructMerge_KeepsOwnKeys(s, t, o) ==
  IF t.tag = "Struct"
  THEN StructType([k \in DOMAIN s.fields |->
         IF k \in DOMAIN t.fields
         THEN Merge(s.fields[k], t.fields[k], o)
         ELSE s.fields[k]])
  ELSE MixedType(<<s, t>>)

StructMerge(s, t, o) ==
  IF t.tag = "Struct"
  THEN StructType([k \in (DOMAIN s.fields) \cup (DOMAIN t.fields) |->
         IF k \in DOMAIN t.fields
         THEN IF k \in DOMAIN s.fields
              THEN Merge(s.fields[k], t.fields[k], o)
              ELSE t.fields[k]
         ELSE s.fields[k]])
  ELSE MixedType(<<s, t>>)

\* SliceMerge that appends the Struct to the Mixed without looking for a
\* Struct member to merge it into.
SliceMerge_AlwaysAppends(s, t, o) ==
  IF SameGoType(s, t, o) THEN s
  ELSE IF t.tag = "Slice" /\ t.elem.tag = "Struct"
       THEN IF s.elem.tag = "Struct"
            THEN SliceType(StructMerge(s.elem, t.elem, o))
            ELSE IF s.elem.tag = "Mixed"
                 THEN SliceType(MixedType(Append(s.elem.members, t.elem)))
                 ELSE MixedType(<<s, t>>)
       ELSE MixedType(<<s, t>>)

SliceMerge(s, t, o) ==
  IF SameGoType(s, t, o) THEN s
  ELSE IF t.tag = "Slice" /\ t.elem.tag = "Struct"
       THEN IF s.elem.tag = "Struct"
            THEN SliceType(StructMerge(s.elem, t.elem, o))
            ELSE IF s.elem.tag = "Mixed"
                 THEN LET i == FirstStruct(s.elem.members) IN
                      IF i # 0
                      THEN SliceType(MixedType(
                             [s.elem.members EXCEPT
                                ![i] = StructMerge(@, t.elem, o)]))
                      ELSE SliceType(MixedType(Append(s.elem.members, t.elem)))
                 ELSE MixedType(<<s, t>>)
       ELSE MixedType(<<s, t>>)

\* a.Merge(b, gen): the value the call returns.
Merge(a, b, o) ==
  CASE a.tag = "Literal" -> LiteralMerge(a, b, o)
    [] a.tag = "Mixed" -> MixedMerge(a, b, o)
    [] a.tag = "Primitive" -> PrimitiveMerge(a, b, o)
    [] a.tag = "Slice" -> SliceMerge(a, b, o)
    [] a.tag = "Struct" -> StructMerge(a, b, o)

\* What the receiver s (a SliceType) holds after s.Merge(t, gen) when the
\* returned value is dropped, as NewArrayType does: only what Merge wrote
\* through the map or the slice s.Type refers to is kept.
SliceMergeInPlace(s, t, o) ==
  IF SameGoType(s, t, o) THEN s
  ELSE IF t.tag = "Slice" /\ t.elem.tag = "Struct"
       THEN IF s.elem.tag = "Struct"
            THEN SliceType(StructMerge(s.elem, t.elem, o))
            ELSE IF s.elem.tag = "Mixed"
                 THEN LET i == FirstStruct(s.elem.members) IN
                      IF i # 0
                      THEN SliceType(MixedType(
                             [s.elem.members EXCEPT
                                ![i] = StructMerge(@, t.elem, o)]))
                      ELSE s
                 ELSE s
       ELSE s

\* What the receiver a holds after a.Merge(b, gen): a StructType is a map
\* and Merge writes into it, a SliceType shares its element type with the
\* caller's copy, the other kinds are not written to.
ReceiverAfter(a, b, o) ==
  CASE a.tag = "Struct" /\ b.tag = "Struct" -> StructMerge(a, b, o)
    [] a.tag = "Slice" -> SliceMergeInPlace(a, b, o)
    [] OTHER -> a

(***************************************************************************)
(* Values of a MongoDB document, as the driver decodes them into a bson.M  *)
(***************************************************************************)
ScalarKinds ==
  {"int32", "int64", "float64", "string", "bool", "ObjectID", "DateTime",
   "Binary", "Regex", "JavaScript", "CodeWithScope", "Timestamp",
   "Decimal128", "MinKey", "MaxKey", "Undefined", "nil", "DBPointer",
   "Symbol"}

Scalar(k) == [k |-> k]

\* primitive.M: a map from field names to values
DocM(f) == [k |-> "M", m |-> f]

\* A value of a Go type TypeOf has no case for
Unsupported == [k |-> "unsupported"]

\* primitive.A: a list of values
ArrA(s) == [k |-> "A", a |-> s]

\* strings.Join(stack, ".")
RECURSIVE Join(_)
Join(stack) ==
  IF Len(stack) = 0 THEN ""
  ELSE IF Len(stack) = 1 THEN stack[1]
       ELSE stack[1] \o "." \o Join(Tail(stack))

ScalarTypeOf(k) ==
  CASE k = "int32" -> PrimitiveType("PrimitiveInt32")
    [] k = "int64" -> PrimitiveType("PrimitiveInt64")
    [] k = "float64" -> PrimitiveType("PrimitiveDouble")
    [] k = "string" -> PrimitiveType("PrimitiveString")
    [] k = "bool" -> PrimitiveType("PrimitiveBool")
    [] k = "ObjectID" -> PrimitiveType("PrimitiveObjectId")
    [] k = "DateTime" -> PrimitiveType("PrimitiveDateTime")
    [] k = "Binary" -> PrimitiveType("PrimitiveBinary")
    [] k = "Regex" -> PrimitiveType("PrimitiveRegex")
    [] k = "JavaScript" -> PrimitiveType("PrimitiveJS")
    [] k = "CodeWithScope" -> PrimitiveType("PrimitiveScopedCode")
    [] k = "Timestamp" -> PrimitiveType("PrimitiveTimestamp")
    [] k = "Decimal128" -> PrimitiveType("PrimitiveDecimal")
    [] k = "MinKey" -> PrimitiveType("PrimitiveMinKey")
    [] k = "MaxKey" -> PrimitiveType("PrimitiveMaxKey")
    [] k = "Undefined" -> PrimitiveType("PrimitiveUndefined")
    [] k = "nil" -> NilType
    [] k = "DBPointer" -> PrimitiveType("PrimitiveDBPointer")
    [] k = "Symbol" -> PrimitiveType("PrimitiveSymbol")

\* The outcome of a TypeOf call that panics ("cannot determine type").
Panic == [tag |-> "Panic"]

\* primitive.D: an ordered list of [Key, Value] elements.  The driver
\* decodes every document below a bson.M as a primitive.M, so the sampled
\* documents hold none.
DocD(s) == [k |-> "D", d |-> s]

RECURSIVE TypeOf(_, _, _, _)
RECURSIVE ArrayLoop(_, _, _, _)
RECURSIVE OrderedLoop(_, _, _, _, _, _)

\* The loop of NewOrderedStructType from element i on, s being the map
\* built so far: no stop path is looked up and a nil value sets no field.
OrderedLoop(d, i, s, stack, stop, o) ==
  IF i > Len(d) THEN StructType(s)
  ELSE LET t == TypeOf(d[i].Value, Append(stack, d[i].Key), stop, o) IN
       IF t = Panic THEN Panic
       ELSE IF t = NilType THEN OrderedLoop(d, i + 1, s, stack, stop, o)
            ELSE OrderedLoop(d, i + 1, (d[i].Key :> t) @@ s, stack, stop, o)

\* NewOrderedStructType(d, gen, stack)
NewOrderedStructType(d, stack, stop, o) ==
  OrderedLoop(d, 1, EmptyMap, stack, stop, o)

\* NewStructType looking the field's own name up in the stop paths, not
\* its path.
NewStructType_NameOnly(m, stack, stop, o) ==
  LET s == [k \in DOMAIN m |->
              IF k \in stop
              THEN StructType(EmptyMap)
              ELSE TypeOf(m[k], Append(stack, k), stop, o)]
  IN IF \E k \in DOMAIN m : s[k] = Panic THEN Panic ELSE StructType(s)

\* NewStructType(m, gen, stack); stop is gen.StopOnFields
NewStructType(m, stack, stop, o) ==
  LET s == [k \in DOMAIN m |->
              IF Join(Append(stack, k)) \in stop
              THEN StructType(EmptyMap)
              ELSE TypeOf(m[k], Append(stack, k), stop, o)]
  IN IF \E k \in DOMAIN m : s[k] = Panic THEN Panic ELSE StructType(s)

\* The loop of NewArrayType from element i on, s being the loop's variable
\* and vts the types of the elements.
ArrayLoop(vts, i, s, o) ==
  IF i > Len(vts) THEN s
  ELSE ArrayLoop(vts, i + 1, SliceMergeInPlace(s, SliceType(vts[i]), o), o)

\* NewArrayType(d, gen, stack)
NewArrayType(d, stack, stop, o) ==
  IF Len(d) = 0 THEN SliceType(MixedType(<<>>))
  ELSE LET vts == [i \in 1..Len(d) |-> TypeOf(d[i], stack, stop, o)]
       IN IF \E i \in 1..Len(d) : vts[i] = Panic THEN Panic
          ELSE ArrayLoop(vts, 2, SliceType(vts[1]), o)

\* gen.TypeOf(v, stack)
TypeOf(v, stack, stop, o) ==
  CASE v.k = "M" -> NewStructType(v.m, stack, stop, o)
    [] v.k = "D" -> NewOrderedStructType(v.d, stack, stop, o)
    [] v.k = "A" -> NewArrayType(v.a, stack, stop, o)
    [] v.k \in ScalarKinds -> ScalarTypeOf(v.k)
    [] OTHER -> Panic

(***************************************************************************)
(* Column flattener (mongodb/utils.go)                                     *)
(***************************************************************************)
\* getSteampipeTypeForMongoType giving a MixedType the column type of its
\* first member.
getSteampipeTypeForMongoType_FirstMember(t) ==
  CASE t.tag = "Literal" -> IF t = NilType THEN "JSON" ELSE "UNKNOWN"
    [] t.tag = "Mixed" ->
         IF Len(t.members) = 0 THEN "JSON"
         ELSE IF t.members[1].tag = "Primitive"
                 /\ t.members[1].kind = "PrimitiveString"
              THEN "STRING" ELSE "JSON"
    [] t.tag = "Slice" -> "JSON"
    [] t.tag = "Struct" -> "JSON"
    [] t.tag = "Primitive" ->
         CASE t.kind = "PrimitiveString" -> "STRING"
           [] t.kind = "PrimitiveInt32" -> "INT"
           [] OTHER -> "UNKNOWN"

getSteampipeTypeForMongoType(t) ==
  CASE t.tag = "Literal" -> IF t = NilType THEN "JSON" ELSE "UNKNOWN"
    [] t.tag = "Mixed" -> "JSON"
    [] t.tag = "Slice" -> "JSON"
    [] t.tag = "Struct" -> "JSON"
    [] t.tag = "Primitive" ->
         CASE t.kind = "PrimitiveBool" -> "BOOL"
           [] t.kind \in {"PrimitiveDouble", "PrimitiveDecimal"} -> "DOUBLE"
           [] t.kind \in {"PrimitiveInt32", "PrimitiveInt64"} -> "INT"
           [] t.kind \in {"PrimitiveString", "PrimitiveBinary",
                          "PrimitiveObjectId", "PrimitiveRegex",
                          "PrimitiveJS", "PrimitiveScopedCode",
                          "PrimitiveSymbol"} -> "STRING"
           [] t.kind \in {"PrimitiveDateTime", "PrimitiveTimestamp"}
                -> "TIMESTAMP"
           [] t.kind = "PrimitiveDBPointer" -> "JSON"
           [] t.kind \in {"PrimitiveMinKey", "PrimitiveMaxKey",
                          "PrimitiveUndefined"} -> "UNKNOWN"
           [] OTHER -> "UNKNOWN"

EmptyCols == [n \in {} |-> "JSON"]

RECURSIVE mongoFieldToSteampipeCol(_, _, _)
RECURSIVE ChildColumns(_, _, _, _)

\* allColumns after the loop over childTypeMap has handled the keys
\* ord[1..i]: a later key's columns overwrite an earlier key's.
ChildColumns(fieldName, f, ord, i) ==
  IF i = 0 THEN EmptyCols
  ELSE IF ord[i] \in DOMAIN f
       THEN mongoFieldToSteampipeCol(fieldName \o "." \o ord[i],
                                     f[ord[i]], ord)
            @@ ChildColumns(fieldName, f, ord, i - 1)
       ELSE ChildColumns(fieldName, f, ord, i - 1)

\* mongoFieldToSteampipeCol recursing into every StructType, also one
\* without a field.
mongoFieldToSteampipeCol_AnyStruct(fieldName, fieldType, ord) ==
  IF fieldType.tag = "Struct"
  THEN ChildColumns(fieldName, fieldType.fields, ord, Len(ord))
  ELSE fieldName :> getSteampipeTypeForMongoType(fieldType)

mongoFieldToSteampipeCol(fieldName, fieldType, ord) ==
  IF fieldType.tag = "Struct" /\ DOMAIN fieldType.fields # {}
  THEN ChildColumns(fieldName, fieldType.fields, ord, Len(ord))
  ELSE fieldName :> getSteampipeTypeForMongoType(fieldType)

RECURSIVE FinalTypes(_, _, _)

\* finalTypes of getFieldTypesForCollection after the loop over typeMap has
\* handled the keys ord[1..i].
FinalTypes(typeMap, ord, i) ==
  IF i = 0 THEN EmptyCols
  ELSE IF ord[i] \in DOMAIN typeMap
       THEN mongoFieldToSteampipeCol(ord[i], typeMap[ord[i]], ord)
            @@ FinalTypes(typeMap, ord, i - 1)
       ELSE FinalTypes(typeMap, ord, i - 1)

\* tableMongoDB: the names of the columns of the table, the UNKNOWN ones
\* being skipped.
TableColumns(colTypes) == {n \in DOMAIN colTypes : colTypes[n] # "UNKNOWN"}

(***************************************************************************)
(* Table definition (tableMongoDB)                                         *)
(***************************************************************************)
\* The operators of the quals package that qualsToMongoFilter has a case
\* for
TranslatedOperators ==
  {"=", "<>", ">", "<", ">=", "<=", "is null", "is not null",
   "~", "!~", "~*", "!~*", "?", "?|", "?&"}

\* and those it names as not implemented: (not) (i)like, the two JSONB
\* contains, JSONB path exists and JSONB path predicate.
UntranslatedOperators ==
  {"~~", "!~~", "~~*", "!~~*", "@>", "<@", "@?", "@@"}

\* plugin.GetValidOperators()
ValidOperators == TranslatedOperators \cup UntranslatedOperators

qualsForColumnOfType(colName, t) ==
  [Name |-> colName, Operators |-> ValidOperators, Require |-> "optional"]

\* The orders in which a range over a map with the keys S can visit them
RECURSIVE Perms(_)
Perms(S) ==
  IF S = {} THEN {<<>>}
  ELSE UNION {{<<x>> \o q : q \in Perms(S \ {x})} : x \in S}

RECURSIVE TableLoop(_, _, _)

\* The loop of tableMongoDB keeping the UNKNOWN columns too
TableLoop_KeepUnknown(colTypes, order, i) ==
  IF i = 0 THEN [cols |-> <<>>, quals |-> <<>>]
  ELSE LET r == TableLoop(colTypes, order, i - 1)
           colName == order[i]
           colType == colTypes[colName]
       IN [cols |-> Append(r.cols, [Name |-> colName, Type |-> colType]),
           quals |-> Append(r.quals,
                            qualsForColumnOfType(colName, colType))]

\* cols and quals of tableMongoDB after its loop over colTypes has handled
\* the names order[1..i]
TableLoop(colTypes, order, i) ==
  IF i = 0 THEN [cols |-> <<>>, quals |-> <<>>]
  ELSE LET r == TableLoop(colTypes, order, i - 1)
           colName == order[i]
           colType == colTypes[colName]
       IN IF colType = "UNKNOWN" THEN r
          ELSE [cols |-> Append(r.cols,
                                [Name |-> colName, Type |-> colType]),
                quals |-> Append(r.quals,
                                 qualsForColumnOfType(colName, colType))]

\* The plugin.Table tableMongoDB returns for the column types colTypes,
\* the range over colTypes visiting the names in the given order
tableMongoDB(colTypes, order) ==
  LET r == TableLoop(colTypes, order, Len(order))
  IN [Columns |-> r.cols, KeyColumns |-> r.quals]

(***************************************************************************)
(* Value coercion (mongoTransformFunction)                                 *)
(***************************************************************************)
\* Go values the transform returns.  A string is given by its text, or by
\* its bytes when it is made from binary data.
GoNil == [k |-> "nil"]
GoString(x) == [k |-> "string", v |-> x]
GoBytesString(b) == [k |-> "string", raw |-> b]
GoTime(sec, nsec) == [k |-> "time.Time", sec |-> sec, nsec |-> nsec]
GoFloat(x) == [k |-> "float64", v |-> x]
GoStringMap(m) == [k |-> "map[string]string", m |-> m]

NoError == "nil"

HexDigits ==
  <<"0", "1", "2", "3", "4", "5", "6", "7", "8", "9", "a", "b", "c", "d",
    "e", "f">>

\* hex.EncodeToString, ObjectID.Hex
RECURSIVE Hex(_)
Hex(b) ==
  IF Len(b) = 0 THEN ""
  ELSE HexDigits[(Head(b) \div 16) + 1] \o HexDigits[(Head(b) % 16) + 1]
       \o Hex(Tail(b))

\* uuid.FromBytes(data) followed by UUID.String()
UUIDString(data) ==
  Hex(SubSeq(data, 1, 4)) \o "-" \o Hex(SubSeq(data, 5, 6)) \o "-"
  \o Hex(SubSeq(data, 7, 8)) \o "-" \o Hex(SubSeq(data, 9, 10)) \o "-"
  \o Hex(SubSeq(data, 11, 16))

\* strconv.ParseFloat(s, 64) on the texts Decimal128.String() gives for
\* the modelled decimals: the float and the error
ParseFloat(str) ==
  CASE str = "1.5" -> [val |-> GoFloat("1.5"), err |-> NoError]
    [] str = "-2" -> [val |-> GoFloat("-2"), err |-> NoError]
    [] str = "NaN" -> [val |-> GoFloat("NaN"), err |-> NoError]
    [] str = "Infinity" -> [val |-> GoFloat("+Inf"), err |-> NoError]
    [] str = "1E+400" -> [val |-> GoFloat("+Inf"), err |-> "ErrRange"]

\* bson.TypeBinaryUUIDOld, bson.TypeBinaryUUID, bson.TypeBinaryMD5
TypeBinaryUUIDOld == 3
TypeBinaryUUID == 4
TypeBinaryMD5 == 5

\* The value and the error mongoTransformFunction returns for d.Value = val
mongoTransformFunction(val) ==
  CASE val.k \in {"int32", "int64", "float64", "string", "bool", "nil"}
         -> [val |-> val, err |-> NoError]
    [] val.k \in {"M", "D", "A"} -> [val |-> val, err |-> NoError]
    [] val.k = "ObjectID"
         -> [val |-> GoString(Hex(val.bytes)), err |-> NoError]
    [] val.k = "DateTime"
         -> [val |-> GoTime(val.ms \div 1000, (val.ms % 1000) * 1000000),
             err |-> NoError]
    [] val.k = "Binary"
         -> IF val.Subtype \in {TypeBinaryUUID, TypeBinaryUUIDOld}
            THEN IF Len(val.Data) # 16
                 THEN [val |-> GoNil, err |-> "invalid UUID"]
                 ELSE [val |-> GoString(UUIDString(val.Data)),
                       err |-> NoError]
            ELSE IF val.Subtype = TypeBinaryMD5
                 THEN [val |-> GoString(Hex(val.Data)), err |-> NoError]
                 ELSE [val |-> GoBytesString(val.Data), err |-> NoError]
    [] val.k = "Regex" -> [val |-> GoString(val.Pattern), err |-> NoError]
    [] val.k = "JavaScript" -> [val |-> GoString(val.code), err |-> NoError]
    [] val.k = "CodeWithScope"
         -> [val |-> GoString(val.Code), err |-> NoError]
    [] val.k = "Timestamp" -> [val |-> GoTime(val.T, 0), err |-> NoError]
    [] val.k = "Decimal128" -> ParseFloat(val.str)
    [] val.k = "Undefined" -> [val |-> GoNil, err |-> NoError]
    [] val.k = "DBPointer"
         -> [val |-> GoStringMap([db |-> val.DB,
                                  pointer |-> Hex(val.Pointer)]),
             err |-> NoError]
    [] val.k = "Symbol" -> [val |-> GoString(val.v), err |-> NoError]
    [] OTHER -> [val |-> GoNil, err |-> "received unknown value"]

(***************************************************************************)
(* Predicate compilation (qualsToMongoFilter)                              *)
(***************************************************************************)
\* proto.QualValue: a container holding one value of one kind
QualValue(kind, v) == [kind |-> kind, v |-> v]

\* The accessors of proto.QualValue give the zero value when the container
\* holds a value of another kind.
GetStringValue(q) == GoString(IF q.kind = "string" THEN q.v ELSE "")
GetInt64Value(q) == [k |-> "int64", v |-> IF q.kind = "int64" THEN q.v ELSE 0]
GetDoubleValue(q) == GoFloat(IF q.kind = "double" THEN q.v ELSE "0")
GetBoolValue(q) == [k |-> "bool", v |-> IF q.kind = "bool" THEN q.v ELSE FALSE]

\* quals.Qual
Qual(column, operator, value) ==
  [Column |-> column, Operator |-> operator, Value |-> value]

\* A bson.M that was declared and never assigned
NilM == [k |-> "nil bson.M"]

\* columns[colIndex]: the first column of that name
ColumnNamed(columns, colName) ==
  columns[CHOOSE i \in DOMAIN columns :
            /\ columns[i].Name = colName
            /\ \A j \in 1..(i - 1) : columns[j].Name # colName]

\* filterValue: the switch on col.Type
FilterValue(col, qual) ==
  CASE col.Type = "STRING" -> GetStringValue(qual.Value)
    [] col.Type = "JSON" -> GetStringValue(qual.Value)
    [] col.Type = "INT" -> GetInt64Value(qual.Value)
    [] col.Type = "DOUBLE" -> GetDoubleValue(qual.Value)
    [] col.Type = "BOOL" -> GetBoolValue(qual.Value)
    [] OTHER -> GoNil

\* filterOp: the switch on qual.Operator
FilterOp(operator, filterValue) ==
  CASE operator = "=" -> ("$eq" :> filterValue)
    [] operator = "<>" -> ("$ne" :> filterValue)
    [] operator = ">" -> ("$gt" :> filterValue)
    [] operator = "<" -> ("$lt" :> filterValue)
    [] operator = ">=" -> ("$gte" :> filterValue)
    [] operator = "<=" -> ("$lte" :> filterValue)
    [] operator = "is null" -> ("$eq" :> GoNil)
    [] operator = "is not null" -> ("$ne" :> GoNil)
    [] operator = "~" -> ("$regex" :> filterValue)
    [] operator = "!~" -> ("$not" :> ("$regex" :> filterValue))
    [] operator = "~*"
         -> ("$regex" :> filterValue @@ "$options" :> GoString("i"))
    [] operator = "!~*"
         -> ("$not" :> ("$regex" :> filterValue
                        @@ "$options" :> GoString("i")))
    [] operator = "?" -> ("$eq" :> filterValue)
    [] operator = "?|" -> ("$in" :> filterValue)
    [] operator = "?&" -> ("$all" :> filterValue)
    [] OTHER -> NilM

\* bson.E
E(key, value) == [Key |-> key, Value |-> value]

\* The body of the inner loop: the element appended for one qual
QualElement(qual, columns) ==
  E(qual.Column,
    FilterOp(qual.Operator,
             FilterValue(ColumnNamed(columns, qual.Column), qual)))

\* The elements the inner loop appends for the quals qs[1..i]
RECURSIVE QualLoop(_, _, _)
QualLoop(qs, i, columns) ==
  IF i = 0 THEN <<>>
  ELSE Append(QualLoop(qs, i - 1, columns), QualElement(qs[i], columns))

\* filter after the outer loop has handled the entries order[1..j] of
\* inputQuals
RECURSIVE FilterLoop(_, _, _, _)
FilterLoop(iq, order, j, columns) ==
  IF j = 0 THEN <<>>
  ELSE FilterLoop(iq, order, j - 1, columns)
       \o QualLoop(iq[order[j]], Len(iq[order[j]]), columns)

\* qualsToMongoFilter(ctx, inputQuals, columns), the range over the map
\* inputQuals visiting its keys in the given order
qualsToMongoFilter(iq, order, columns) ==
  FilterLoop(iq, order, Len(order), columns)

(***************************************************************************)
(* State                                                                   *)
(***************************************************************************)
VARIABLES
  StopOnFields,  \* Generator.StopOnFields
  root,          \* Generator.root
  pc,            \* "sampling" while documents are fed, then "built"
  finalTypes,    \* the column map of getFieldTypesForCollection
  nfed,          \* number of Update calls so far
  last,          \* history: the document of the latest Update call
  seenKeys,      \* history: field paths the fed documents hold
  seenNonDoc,    \* history: field paths at which a fed document holds a
                 \* value that is not a sub-document
  stopInAll,     \* history: the stop paths every fed document contains
  ma, mb, mres,  \* operands and result of one Merge call
  tv, tstop, tres, \* value, stop paths and result of one TypeOf call
  ftype, fcols,  \* type and result of one mongoFieldToSteampipeCol call
  table,         \* the plugin.Table tableMongoDB returns
  cval, cres,    \* value and result of one mongoTransformFunction call
  inputQuals,    \* the quals of one qualsToMongoFilter call
  filter,        \* the bson.D qualsToMongoFilter returns
  mrecv,         \* what the receiver of the Merge call holds after it
  coll,          \* the documents of the collection, a bag
  sampleSize,    \* the sample_size of the connection configuration
  cursor,        \* the documents the $sample cursor still holds, a bag
  fed,           \* history: the documents Update was called with, a bag
  list,          \* the state of one listMongoDBWithName call
  plug           \* the configuration, store and outcome of PluginTables

vars == <<StopOnFields, root, pc, finalTypes, nfed, last, seenKeys,
          seenNonDoc, stopInAll, ma, mb, mres, tv, tstop, tres, ftype, fcols,
          table, cval, cres, inputQuals, filter, mrecv, coll, sampleSize,
          cursor, fed, list, plug>>

genVars == <<StopOnFields, root, pc, finalTypes, nfed, last, seenKeys,
             seenNonDoc, stopInAll>>

mergeVars == <<ma, mb, mres>>

typeOfVars == <<tv, tstop, tres>>

flattenVars == <<ftype, fcols>>

queryVars == <<table, cval, cres, inputQuals, filter>>

sampleVars == <<coll, sampleSize, cursor, fed>>

hostVars == <<list, plug>>

\* Value of a variable a specification does not use, and of a result that
\* has not been computed yet.
None == [tag |-> "None"]

(***************************************************************************)
(* Documents fed to the Generator                                          *)
(***************************************************************************)
\* All functions from a subset of names, of at most n elements, to vals.
Maps(names, vals, n) ==
  UNION {[K -> vals] : K \in {S \in SUBSET names : Cardinality(S) <= n}}

I32 == Scalar("int32")

Str == Scalar("string")

\* Values of the top-level fields of the sampled documents.
GenValues ==
  {I32, Str,
   DocM(EmptyMap), DocM([a |-> I32]), DocM([a |-> I32, b |-> I32]),
   DocM([b |-> DocM([a |-> I32])]),
   ArrA(<<>>), ArrA(<<DocM([a |-> I32])>>)}

\* Values of the top-level field whose name holds a dot.
DottedValues == {I32, DocM(EmptyMap)}

\* The sampled documents: an optional field "a" and an optional field "a.b".
Docs ==
  {DocM(f @@ g) : f \in Maps({"a"}, GenValues, 1),
                  g \in Maps({"a.b"}, DottedValues, 1)}

\* The StopOnFields a Generator is built with.
StopChoices == {{}, {"a"}, {"a.b"}}

(***************************************************************************)
(* History: what the fed documents hold                                    *)
(***************************************************************************)
RECURSIVE DocKeys(_, _, _)
\* Paths (sequences of field names) of the fields of document value v,
\* descending into sub-documents that are not stopped.
DocKeys(v, stack, stop) ==
  IF v.k # "M" THEN {}
  ELSE UNION {{Append(stack, k)} \cup
              (IF Join(Append(stack, k)) \in stop THEN {}
               ELSE DocKeys(v.m[k], Append(stack, k), stop))
              : k \in DOMAIN v.m}

RECURSIVE NonDocKeys(_, _, _)
\* Paths of the fields of v, not stopped, whose value is not a sub-document.
NonDocKeys(v, stack, stop) ==
  IF v.k # "M" THEN {}
  ELSE UNION {IF Join(Append(stack, k)) \in stop THEN {}
              ELSE IF v.m[k].k = "M"
                   THEN NonDocKeys(v.m[k], Append(stack, k), stop)
                   ELSE {Append(stack, k)}
              : k \in DOMAIN v.m}

RECURSIVE AllDocKeys(_, _)
\* Paths of all the fields of v, through sub-documents.
AllDocKeys(v, stack) ==
  IF v.k # "M" THEN {}
  ELSE UNION {{Append(stack, k)} \cup AllDocKeys(v.m[k], Append(stack, k))
              : k \in DOMAIN v.m}

\* Document d has a field whose dot-joined path is p.
Contains(d, p) == \E q \in AllDocKeys(d, <<>>) : Join(q) = p

RECURSIVE StructKeys(_, _)
\* Paths of the fields of type t, through StructTypes.
StructKeys(t, stack) ==
  IF t.tag # "Struct" THEN {}
  ELSE UNION {{Append(stack, k)} \cup StructKeys(t.fields[k], Append(stack, k))
              : k \in DOMAIN t.fields}

(***************************************************************************)
(* The Generator, sampling and the column list                             *)
(***************************************************************************)
\* The state of a Generator nothing has been fed to.
GenIdle ==
  /\ root = StructType(EmptyMap)
  /\ finalTypes = EmptyCols
  /\ nfed = 0
  /\ last = None
  /\ seenKeys = {}
  /\ seenNonDoc = {}
  /\ stopInAll = StopOnFields

MergeIdle == ma = None /\ mb = None /\ mres = None

TypeOfIdle == tv = None /\ tstop = {} /\ tres = None

FlattenIdle == ftype = None /\ fcols = EmptyCols

QueryIdle ==
  /\ table = None
  /\ cval = None /\ cres = None
  /\ inputQuals = None /\ filter = None

SampleIdle == coll = None /\ sampleSize = None /\ cursor = None /\ fed = None

HostIdle == list = None /\ plug = None

Init ==
  /\ StopOnFields \in StopChoices
  /\ pc = "sampling"
  /\ GenIdle
  /\ MergeIdle /\ TypeOfIdle /\ FlattenIdle /\ QueryIdle
  /\ SampleIdle /\ HostIdle /\ mrecv = None

\* Generator.Update(m): the root is merged, in place, with the type of m.
Update(m, o) ==
  /\ pc = "sampling"
  /\ nfed < MaxUpdates
  /\ root' = StructMerge(root, TypeOf(m, <<>>, StopOnFields, o), o)
  /\ nfed' = nfed + 1
  /\ last' = m
  /\ seenKeys' = seenKeys \cup DocKeys(m, <<>>, StopOnFields)
  /\ seenNonDoc' = seenNonDoc \cup NonDocKeys(m, <<>>, StopOnFields)
  /\ stopInAll' = {p \in stopInAll : Contains(m, p)}
  /\ UNCHANGED <<StopOnFields, pc, finalTypes>>
  /\ UNCHANGED <<mergeVars, typeOfVars, flattenVars, queryVars>>
  /\ UNCHANGED <<mrecv, sampleVars, hostVars>>

\* getFieldTypesForCollection after the sampling loop: GetType and the
\* flattening of every top-level field into finalTypes.
GetFieldTypes(ord) ==
  /\ pc = "sampling"
  /\ pc' = "built"
  /\ finalTypes' = FinalTypes(root.fields, ord, Len(ord))
  /\ UNCHANGED <<StopOnFields, root, nfed, last, seenKeys, seenNonDoc,
                 stopInAll>>
  /\ UNCHANGED <<mergeVars, typeOfVars, flattenVars, queryVars>>
  /\ UNCHANGED <<mrecv, sampleVars, hostVars>>

Next ==
  \/ \E m \in Docs, o \in OrderPairs : Update(m, o)
  \/ \E ord \in Orders : GetFieldTypes(ord)

Spec == Init /\ [][Next]_vars

(***************************************************************************)
(* One call of Merge on two types                                          *)
(***************************************************************************)
P32 == PrimitiveType("PrimitiveInt32")

PStr == PrimitiveType("PrimitiveString")

AtomTypes == {NilType, P32, PStr}

\* StructTypes of at most two fields, each of a primitive type.
FlatStructTypes ==
  {StructType(f) : f \in Maps({"a", "b", "x*"}, {P32, PStr}, 2)}

\* The members a MixedType of the modelled operands is made of.
MemberTypes ==
  {NilType, P32, PStr, StructType([a |-> P32]),
   StructType([a |-> P32, b |-> P32])}

MixedTypes ==
  {MixedType(<<xy[1], xy[2]>>) :
     xy \in {p \in MemberTypes \X MemberTypes : p[1] # p[2]}}

ElemTypes ==
  AtomTypes \cup {MixedType(<<>>)} \cup MixedTypes
  \cup {StructType(EmptyMap), StructType([a |-> P32]), StructType([b |-> PStr]),
        StructType([a |-> P32, b |-> P32])}

SliceTypes == {SliceType(e) : e \in ElemTypes}

MergeTypes ==
  AtomTypes \cup FlatStructTypes \cup MixedTypes \cup SliceTypes
  \cup {StructType([a |-> m]) : m \in MixedTypes \cup SliceTypes}

InitMerge ==
  /\ StopOnFields = {}
  /\ pc = "call"
  /\ GenIdle
  /\ ma \in MergeTypes /\ mb \in MergeTypes /\ mres = None
  /\ TypeOfIdle /\ FlattenIdle /\ QueryIdle
  /\ SampleIdle /\ HostIdle /\ mrecv = None

\* mres := ma.Merge(mb, gen)
DoMerge(o) ==
  /\ pc = "call"
  /\ pc' = "done"
  /\ mres' = Merge(ma, mb, o)
  /\ UNCHANGED <<ma, mb>>
  /\ UNCHANGED <<StopOnFields, root, finalTypes, nfed, last, seenKeys,
                 seenNonDoc, stopInAll>>
  /\ UNCHANGED <<typeOfVars, flattenVars, queryVars>>
  /\ mrecv' = ReceiverAfter(ma, mb, o)
  /\ UNCHANGED <<sampleVars, hostVars>>

NextMerge == \E o \in OrderPairs : DoMerge(o)

SpecMerge == InitMerge /\ [][NextMerge]_vars

(***************************************************************************)
(* One call of TypeOf on a value                                           *)
(***************************************************************************)
\* All sequences over S of length at most n.
Seqs(S, n) == UNION {[1..k -> S] : k \in 0..n}

\* Sub-documents of at most two fields, each a number or a string.
LeafDocs == {DocM(f) : f \in Maps({"a", "b", "x*"}, {I32, Str}, 2)}

\* What the elements of the modelled arrays are.
ArrayElems == {I32, Str, Scalar("nil"), ArrA(<<>>)} \cup LeafDocs

Arrays == {ArrA(s) : s \in Seqs(ArrayElems, MaxArrayLen)}

\* Values of the fields of the documents TypeOf is called on.
FieldValues ==
  {I32, Unsupported,
   DocM([a |-> I32]), DocM([a |-> Unsupported]),
   DocM([a |-> DocM([b |-> I32])]),
   DocM([a |-> I32, b |-> DocM([a |-> Str])]),
   ArrA(<<DocM([a |-> I32])>>), ArrA(<<Unsupported>>)}

TypeOfDocs == {DocM(f) : f \in Maps({"a", "b", "a.b"}, FieldValues, 2)}

TypeOfStops == {{}, {"a"}, {"b.a"}, {"a", "b.a"}, {"a.b"}}

InitTypeOf ==
  /\ StopOnFields = {}
  /\ pc = "call"
  /\ GenIdle
  /\ MergeIdle
  /\ tv \in Arrays \cup TypeOfDocs /\ tstop \in TypeOfStops /\ tres = None
  /\ FlattenIdle /\ QueryIdle
  /\ SampleIdle /\ HostIdle /\ mrecv = None

\* tres := gen.TypeOf(tv, nil), gen.StopOnFields being tstop
DoTypeOf(o) ==
  /\ pc = "call"
  /\ pc' = "done"
  /\ tres' = TypeOf(tv, <<>>, tstop, o)
  /\ UNCHANGED <<tv, tstop>>
  /\ UNCHANGED <<StopOnFields, root, finalTypes, nfed, last, seenKeys,
                 seenNonDoc, stopInAll>>
  /\ UNCHANGED <<mergeVars, flattenVars, queryVars>>
  /\ UNCHANGED <<mrecv, sampleVars, hostVars>>

NextTypeOf == \E o \in OrderPairs : DoTypeOf(o)

SpecTypeOf == InitTypeOf /\ [][NextTypeOf]_vars

(***************************************************************************)
(* One call of mongoFieldToSteampipeCol on a type                          *)
(***************************************************************************)
\* Types of the fields of the flattened StructTypes.
InnerTypes ==
  {P32, PStr, PrimitiveType("PrimitiveMaxKey"), NilType,
   StructType(EmptyMap), StructType([b |-> PStr]),
   StructType([a |-> PStr, b |-> P32]),
   StructType([b |-> StructType(EmptyMap)]),
   StructType([a |-> StructType([a |-> P32, b |-> SliceType(P32)])]),
   SliceType(P32), MixedType(<<NilType, PStr>>)}

FlattenTypes ==
  MergeTypes \cup {PrimitiveType(k) : k \in PrimitiveKinds}
  \cup {StructType(f) : f \in Maps({"a", "b", "a.b"}, InnerTypes, 2)}

\* The fieldName of the modelled call
FlattenName == "a"

InitFlatten ==
  /\ StopOnFields = {}
  /\ pc = "call"
  /\ GenIdle
  /\ MergeIdle /\ TypeOfIdle /\ QueryIdle
  /\ ftype \in FlattenTypes /\ fcols = EmptyCols
  /\ SampleIdle /\ HostIdle /\ mrecv = None

\* fcols := mongoFieldToSteampipeCol(ctx, FlattenName, ftype)
DoFlatten(ord) ==
  /\ pc = "call"
  /\ pc' = "done"
  /\ fcols' = mongoFieldToSteampipeCol(FlattenName, ftype, ord)
  /\ UNCHANGED ftype
  /\ UNCHANGED <<StopOnFields, root, finalTypes, nfed, last, seenKeys,
                 seenNonDoc, stopInAll>>
  /\ UNCHANGED <<mergeVars, typeOfVars, queryVars>>
  /\ UNCHANGED <<mrecv, sampleVars, hostVars>>

NextFlatten == \E ord \in Orders : DoFlatten(ord)

SpecFlatten == InitFlatten /\ [][NextFlatten]_vars

(***************************************************************************)
(* tableMongoDB on the type a sample gave                                  *)
(***************************************************************************)
TableFieldTypes ==
  InnerTypes \cup {PrimitiveType("PrimitiveMinKey"),
                   PrimitiveType("PrimitiveUndefined"),
                   StructType([a |-> PrimitiveType("PrimitiveMinKey"),
                               b |-> PStr])}

TableTypeMaps ==
  {StructType(f) : f \in Maps({"a", "b", "a.b"}, TableFieldTypes, 2)}

InitTable ==
  /\ StopOnFields = {}
  /\ pc = "sampled"
  /\ root \in TableTypeMaps
  /\ finalTypes = EmptyCols
  /\ nfed = 0 /\ last = None
  /\ seenKeys = {} /\ seenNonDoc = {} /\ stopInAll = {}
  /\ MergeIdle /\ TypeOfIdle /\ FlattenIdle /\ QueryIdle
  /\ SampleIdle /\ HostIdle /\ mrecv = None

\* tableMongoDB from the flattening of the sampled type on
BuildTable(ord) ==
  /\ pc = "sampled"
  /\ pc' = "table"
  /\ finalTypes' = FinalTypes(root.fields, ord, Len(ord))
  /\ \E order \in Perms(DOMAIN finalTypes') :
       table' = tableMongoDB(finalTypes', order)
  /\ UNCHANGED <<StopOnFields, root, nfed, last, seenKeys, seenNonDoc,
                 stopInAll>>
  /\ UNCHANGED <<mergeVars, typeOfVars, flattenVars>>
  /\ UNCHANGED <<cval, cres, inputQuals, filter>>
  /\ UNCHANGED <<mrecv, sampleVars, hostVars>>

NextTable == \E ord \in Orders : BuildTable(ord)

SpecTable == InitTable /\ [][NextTable]_vars

(***************************************************************************)
(* One call of mongoTransformFunction on a value                           *)
(***************************************************************************)
OID1 == <<92, 164, 187, 199, 162, 221, 148, 238, 88, 22, 35, 141>>
OID2 == <<0, 1, 2, 3, 4, 5, 6, 7, 8, 9, 10, 255>>
Data16 == <<18, 52, 86, 120, 154, 188, 222, 240, 0, 17, 34, 51, 68, 85, 102,
            119>>
Data3 == <<97, 98, 99>>

RegexValues ==
  {[k |-> "Regex", Pattern |-> p, Options |-> o] :
     p \in {"^a", "b.*"}, o \in {"", "i", "ix"}}

BinaryValues ==
  {[k |-> "Binary", Subtype |-> st, Data |-> d] :
     st \in {0, TypeBinaryUUIDOld, TypeBinaryUUID, TypeBinaryMD5, 128},
     d \in {<<>>, Data3, Data16}}

\* Values with a Go type mongoTransformFunction has no case for
UncoveredValues ==
  {[k |-> "MinKey"], [k |-> "MaxKey"], [k |-> "Null"], [k |-> "int"],
   [k |-> "time.Time", sec |-> 0, nsec |-> 0]}

CoerceValues ==
  {[k |-> kk, v |-> n] : kk \in {"int32", "int64"}, n \in {0, 7}}
  \cup {[k |-> "float64", v |-> x] : x \in {"1.5", "NaN"}}
  \cup {[k |-> "string", v |-> x] : x \in {"", "abc"}}
  \cup {[k |-> "bool", v |-> x] : x \in BOOLEAN}
  \cup {GoNil, [k |-> "Undefined"]}
  \cup {DocM(EmptyMap), DocM([a |-> Scalar("int32")]), DocD(<<>>),
        ArrA(<<>>), ArrA(<<Scalar("string")>>)}
  \cup {[k |-> "ObjectID", bytes |-> b] : b \in {OID1, OID2}}
  \cup {[k |-> "DateTime", ms |-> n] : n \in {0, 1500}}
  \cup BinaryValues \cup RegexValues
  \cup {[k |-> "JavaScript", code |-> c] : c \in {"", "f()"}}
  \cup {[k |-> "CodeWithScope", Code |-> c, Scope |-> sc] :
          c \in {"f()"}, sc \in {DocM(EmptyMap), DocM([a |-> Scalar("int32")])}}
  \cup {[k |-> "Timestamp", T |-> t, I |-> i] : t \in {0, 60}, i \in {0, 1}}
  \cup {[k |-> "Decimal128", str |-> x] :
          x \in {"1.5", "-2", "NaN", "Infinity", "1E+400"}}
  \cup {[k |-> "DBPointer", DB |-> "users", Pointer |-> b] :
          b \in {OID1, OID2}}
  \cup {[k |-> "Symbol", v |-> x] : x \in {"", "sym"}}
  \cup UncoveredValues

InitCoerce ==
  /\ StopOnFields = {}
  /\ pc = "call"
  /\ GenIdle
  /\ MergeIdle /\ TypeOfIdle /\ FlattenIdle
  /\ table = None /\ inputQuals = None /\ filter = None
  /\ cval \in CoerceValues /\ cres = None
  /\ SampleIdle /\ HostIdle /\ mrecv = None

\* cres := mongoTransformFunction(ctx, d) with d.Value = cval
DoCoerce ==
  /\ pc = "call"
  /\ pc' = "done"
  /\ cres' = mongoTransformFunction(cval)
  /\ UNCHANGED <<StopOnFields, root, finalTypes, nfed, last, seenKeys,
                 seenNonDoc, stopInAll>>
  /\ UNCHANGED <<mergeVars, typeOfVars, flattenVars>>
  /\ UNCHANGED <<table, cval, inputQuals, filter>>
  /\ UNCHANGED <<mrecv, sampleVars, hostVars>>

NextCoerce == DoCoerce

SpecCoerce == InitCoerce /\ [][NextCoerce]_vars

(***************************************************************************)
(* One call of qualsToMongoFilter on the quals of a query                  *)
(***************************************************************************)
\* The inferred type of the queried collection and the columns of its
\* table, as in the tests of qualsToMongoFilter, with a column more for
\* each of the other column types.
FilterTypeMap ==
  StructType("_id" :> PrimitiveType("PrimitiveObjectId")
             @@ "field" :> StructType("string" :> PStr
                                      @@ "ts" :> PrimitiveType("PrimitiveTimestamp"))
             @@ "n" :> PrimitiveType("PrimitiveInt64")
             @@ "d" :> PrimitiveType("PrimitiveDouble")
             @@ "b" :> PrimitiveType("PrimitiveBool")
             @@ "products" :> SliceType(PStr))

FilterColumns ==
  <<[Name |-> "_id", Type |-> "STRING"],
    [Name |-> "field.string", Type |-> "STRING"],
    [Name |-> "field.ts", Type |-> "TIMESTAMP"],
    [Name |-> "n", Type |-> "INT"],
    [Name |-> "d", Type |-> "DOUBLE"],
    [Name |-> "b", Type |-> "BOOL"],
    [Name |-> "products", Type |-> "JSON"]>>

\* The literals a query can compare a column with: of the column's type,
\* and for a JSON column a text, or a list of texts with the two operators
\* that take one
LiteralsFor(colName, op) ==
  CASE colName = "_id"
         -> {QualValue("string", Hex(OID1)), QualValue("string", "xyz")}
    [] colName = "field.string" -> {QualValue("string", "val")}
    [] colName = "field.ts"
         -> {QualValue("timestamp", 0), QualValue("timestamp", 60)}
    [] colName = "n" -> {QualValue("int64", 5)}
    [] colName = "d" -> {QualValue("double", "1.5")}
    [] colName = "b" -> {QualValue("bool", TRUE)}
    [] colName = "products"
         -> IF op \in {"?|", "?&"}
            THEN {QualValue("list", <<QualValue("string", "InvestmentStock"),
                                      QualValue("string", "Brokerage")>>),
                  QualValue("list", <<QualValue("string", "Commodity")>>)}
            ELSE {QualValue("string", "Brokerage"),
                  QualValue("string", "Commodity")}

\* The operators a query can apply to a column of a type: comparisons and
\* null tests to a scalar, pattern matches to a text too, and the JSONB
\* operators and null tests to a JSON column
OperatorsFor(colType) ==
  CASE colType = "STRING"
         -> {"=", "<>", ">", "<", ">=", "<=", "is null", "is not null",
             "~", "!~", "~*", "!~*", "~~", "!~~", "~~*", "!~~*"}
    [] colType = "JSON"
         -> {"is null", "is not null", "?", "?|", "?&", "@>", "<@", "@?",
             "@@"}
    [] OTHER -> {"=", "<>", ">", "<", ">=", "<=", "is null", "is not null"}

\* The pairs of a column and an operator a query can apply to it
ColumnOperators ==
  UNION {{<<i, op>> : op \in OperatorsFor(FilterColumns[i].Type)}
         : i \in DOMAIN FilterColumns}

Predicates ==
  UNION {{Qual(FilterColumns[io[1]].Name, io[2], v) :
            v \in LiteralsFor(FilterColumns[io[1]].Name, io[2])}
         : io \in ColumnOperators}

\* The first predicate of the queries with two predicates
FirstPredicates ==
  {Qual("n", ">", QualValue("int64", 5)),
   Qual("n", "<", QualValue("int64", 5)),
   Qual("field.string", "~~", QualValue("string", "val")),
   Qual("field.string", "~*", QualValue("string", "val")),
   Qual("products", "@>", QualValue("string", "Brokerage"))}

\* d.Quals for a query with the predicate p, and with the predicates p
\* and q: a map from the column to the list of its quals
OneQual(p) == p.Column :> <<p>>
TwoQuals(p, q) ==
  IF p.Column = q.Column THEN p.Column :> <<p, q>>
  ELSE (p.Column :> <<p>>) @@ (q.Column :> <<q>>)

QualMaps ==
  {OneQual(p) : p \in Predicates}
  \cup {TwoQuals(p, q) : p \in FirstPredicates, q \in Predicates}

InitFilter ==
  /\ StopOnFields = {}
  /\ pc = "call"
  /\ GenIdle
  /\ MergeIdle /\ TypeOfIdle /\ FlattenIdle
  /\ table = None /\ cval = None /\ cres = None
  /\ inputQuals \in QualMaps /\ filter = None
  /\ SampleIdle /\ HostIdle /\ mrecv = None

\* filter := qualsToMongoFilter(ctx, quals, d.Table.Columns)
DoFilter(order) ==
  /\ pc = "call"
  /\ pc' = "done"
  /\ filter' = qualsToMongoFilter(inputQuals, order, FilterColumns)
  /\ UNCHANGED <<StopOnFields, root, finalTypes, nfed, last, seenKeys,
                 seenNonDoc, stopInAll>>
  /\ UNCHANGED <<mergeVars, typeOfVars, flattenVars>>
  /\ UNCHANGED <<table, cval, cres, inputQuals>>
  /\ UNCHANGED <<mrecv, sampleVars, hostVars>>

NextFilter == \E order \in Perms(DOMAIN inputQuals) : DoFilter(order)

SpecFilter == InitFilter /\ [][NextFilter]_vars

(***************************************************************************)
(* getFieldTypesForCollection on a collection, then tableMongoDB and the   *)
(* coercion of the values of the sampled documents                         *)
(***************************************************************************)
\* The size of the $sample stage of the sampling pipeline.
samplingPipelineSize == 4

\* The sample_size a configuration that does not set it has.
DefaultSampleSize == 1000

SampleSizes == {0, 2, DefaultSampleSize}

\* The documents a collection is made of: field a is a string, the
\* min-key sentinel, a sub-document, an empty array or an array of
\* sub-documents, or the document has field b only.
SampleDocs ==
  <<DocM([a |-> Str]), DocM([a |-> Scalar("MinKey")]),
    DocM([a |-> DocM([b |-> I32])]), DocM([b |-> I32]),
    DocM([a |-> ArrA(<<>>)]), DocM([a |-> ArrA(<<DocM([b |-> I32])>>)])>>

RECURSIVE BagSizeFrom(_, _)
BagSizeFrom(b, i) ==
  IF i > Len(SampleDocs) THEN 0 ELSE b[i] + BagSizeFrom(b, i + 1)

\* Number of documents of bag b, a function from the indices of SampleDocs
\* to the number of copies.
BagSize(b) == BagSizeFrom(b, 1)

NoDocs == [i \in DOMAIN SampleDocs |-> 0]

Collections ==
  {b \in [DOMAIN SampleDocs -> 0..MaxCollection] : BagSize(b) <= MaxCollection}

Min(x, y) == IF x <= y THEN x ELSE y

InitSample ==
  /\ StopOnFields = {}
  /\ pc = "config"
  /\ GenIdle
  /\ MergeIdle /\ TypeOfIdle /\ FlattenIdle /\ QueryIdle
  /\ HostIdle /\ mrecv = None
  /\ coll \in Collections
  /\ sampleSize \in SampleSizes
  /\ cursor = None
  /\ fed = NoDocs

\* collection.Aggregate with the $sample stage: the cursor will give
\* samplingPipelineSize documents of the collection picked at random, all
\* of them when the collection has fewer.
Aggregate ==
  /\ pc = "config"
  /\ pc' = "sampling"
  /\ cursor' = [left |-> coll,
                n |-> Min(samplingPipelineSize, BagSize(coll))]
  /\ UNCHANGED <<StopOnFields, root, finalTypes, nfed, last, seenKeys,
                 seenNonDoc, stopInAll, coll, sampleSize, fed>>
  /\ UNCHANGED <<mergeVars, typeOfVars, flattenVars, queryVars, hostVars,
                 mrecv>>

\* collection.Aggregate returns an error: nil, err is returned.
AggregateFails ==
  /\ pc = "config"
  /\ pc' = "failed"
  /\ UNCHANGED <<StopOnFields, root, finalTypes, nfed, last, seenKeys,
                 seenNonDoc, stopInAll, sampleVars>>
  /\ UNCHANGED <<mergeVars, typeOfVars, flattenVars, queryVars, hostVars,
                 mrecv>>

\* One turn of the sampling loop: cursor.Next gives document i, Decode
\* succeeds and the document is fed to the Generator.
SampleUpdate(i, o) ==
  /\ pc = "sampling"
  /\ cursor.n > 0 /\ cursor.left[i] > 0
  /\ cursor' = [left |-> [cursor.left EXCEPT ![i] = @ - 1],
                n |-> cursor.n - 1]
  /\ root' = StructMerge(root, TypeOf(SampleDocs[i], <<>>, StopOnFields, o), o)
  /\ nfed' = nfed + 1
  /\ fed' = [fed EXCEPT ![i] = @ + 1]
  /\ UNCHANGED <<StopOnFields, pc, finalTypes, last, seenKeys, seenNonDoc,
                 stopInAll, coll, sampleSize>>
  /\ UNCHANGED <<mergeVars, typeOfVars, flattenVars, queryVars, hostVars,
                 mrecv>>

\* One turn of the sampling loop in which Decode fails: nil, err is
\* returned.
SampleDecodeFails(i) ==
  /\ pc = "sampling"
  /\ cursor.n > 0 /\ cursor.left[i] > 0
  /\ pc' = "failed"
  /\ cursor' = [left |-> [cursor.left EXCEPT ![i] = @ - 1],
                n |-> cursor.n - 1]
  /\ UNCHANGED <<StopOnFields, root, finalTypes, nfed, last, seenKeys,
                 seenNonDoc, stopInAll, coll, sampleSize, fed>>
  /\ UNCHANGED <<mergeVars, typeOfVars, flattenVars, queryVars, hostVars,
                 mrecv>>

\* cursor.Next returns false: GetType and the flattening into finalTypes.
SampleFinish(ord) ==
  /\ pc = "sampling"
  /\ cursor.n = 0
  /\ pc' = "built"
  /\ finalTypes' = FinalTypes(root.fields, ord, Len(ord))
  /\ UNCHANGED <<StopOnFields, root, nfed, last, seenKeys, seenNonDoc,
                 stopInAll, sampleVars>>
  /\ UNCHANGED <<mergeVars, typeOfVars, flattenVars, queryVars, hostVars,
                 mrecv>>

\* tableMongoDB on the column types getFieldTypesForCollection returned.
SampleTable(order) ==
  /\ pc = "built"
  /\ pc' = "table"
  /\ table' = tableMongoDB(finalTypes, order)
  /\ UNCHANGED <<StopOnFields, root, finalTypes, nfed, last, seenKeys,
                 seenNonDoc, stopInAll>>
  /\ UNCHANGED <<mergeVars, typeOfVars, flattenVars, hostVars, mrecv,
                 sampleVars, cval, cres, inputQuals, filter>>

RECURSIVE FieldValuesOf(_, _)
\* The fields of document value v, through its sub-documents: the
\* dot-joined path and the value FromSingleField reads at it.
FieldValuesOf(v, stack) ==
  IF v.k # "M" THEN {}
  ELSE UNION {{[name |-> Join(Append(stack, k)), value |-> v.m[k]]}
              \cup FieldValuesOf(v.m[k], Append(stack, k))
              : k \in DOMAIN v.m}

\* The transform of a column of the table on a sampled document that has
\* the column's field: FromSingleField, then mongoTransformFunction.
SampleCoerce(i, nv) ==
  /\ pc = "table"
  /\ fed[i] > 0
  /\ nv \in FieldValuesOf(SampleDocs[i], <<>>)
  /\ \E j \in DOMAIN table.Columns : table.Columns[j].Name = nv.name
  /\ pc' = "coerced"
  /\ cval' = nv.value
  /\ cres' = mongoTransformFunction(nv.value)
  /\ UNCHANGED <<StopOnFields, root, finalTypes, nfed, last, seenKeys,
                 seenNonDoc, stopInAll, sampleVars>>
  /\ UNCHANGED <<mergeVars, typeOfVars, flattenVars, hostVars, mrecv, table,
                 inputQuals, filter>>

NextSample ==
  \/ Aggregate
  \/ AggregateFails
  \/ \E i \in DOMAIN SampleDocs, o \in OrderPairs : SampleUpdate(i, o)
  \/ \E i \in DOMAIN SampleDocs : SampleDecodeFails(i)
  \/ \E ord \in Orders : SampleFinish(ord)
  \/ \E order \in Perms(DOMAIN finalTypes) : SampleTable(order)
  \/ \E i \in DOMAIN SampleDocs :
       \E nv \in FieldValuesOf(SampleDocs[i], <<>>) : SampleCoerce(i, nv)

SpecSample == InitSample /\ [][NextSample]_vars

(***************************************************************************)
(* The hydrate function listMongoDBWithName returns                        *)
(***************************************************************************)
\* list.at is the position in the function, list.avail the number of
\* documents the cursor has not given yet, list.budget what
\* d.RowsRemaining returns, which StreamListItem lowers by one.  History:
\* list.initial is the budget at the call, list.requested the number of
\* documents cursor.Next has fetched, list.requestedAtZero whether one was
\* fetched while the budget was zero, list.streamed the number of rows.
InitList ==
  /\ StopOnFields = {}
  /\ pc = "list"
  /\ GenIdle
  /\ MergeIdle /\ TypeOfIdle /\ FlattenIdle /\ QueryIdle
  /\ SampleIdle /\ mrecv = None /\ plug = None
  /\ \E n \in 0..MaxCollection, b \in 0..MaxCollection :
       list = [at |-> "find", avail |-> n, budget |-> b, initial |-> b,
               opened |-> FALSE, closed |-> FALSE, requested |-> 0,
               requestedAtZero |-> FALSE, streamed |-> 0, err |-> NoError]

ListUnchanged ==
  /\ UNCHANGED genVars
  /\ UNCHANGED <<mergeVars, typeOfVars, flattenVars, queryVars, sampleVars,
                 mrecv, plug>>

\* coll.Find succeeds: the cursor is open and its Close is deferred.
Find ==
  /\ list.at = "find"
  /\ list' = [list EXCEPT !.at = "loop", !.opened = TRUE]
  /\ ListUnchanged

\* coll.Find fails: nil, err is returned and there is no cursor.
FindFails ==
  /\ list.at = "find"
  /\ list' = [list EXCEPT !.at = "returned", !.err = "find error"]
  /\ ListUnchanged

\* The loop condition cursor.Next(ctx) && d.RowsRemaining(ctx) > 0:
\* cursor.Next is called first and fetches a document if there is one,
\* then the budget is looked at.  When the condition is false the function
\* returns nil, nil and the deferred Close runs.
LoopCondition ==
  /\ list.at = "loop"
  /\ list' =
       IF list.avail = 0
       THEN [list EXCEPT !.at = "returned", !.closed = TRUE]
       ELSE [list EXCEPT
               !.avail = @ - 1,
               !.requested = @ + 1,
               !.requestedAtZero = @ \/ list.budget = 0,
               !.at = IF list.budget > 0 THEN "body" ELSE "returned",
               !.closed = list.budget = 0]
  /\ ListUnchanged

\* The loop body when Decode succeeds: the row is streamed.
StreamListItem ==
  /\ list.at = "body"
  /\ list' = [list EXCEPT !.at = "loop", !.streamed = @ + 1,
                          !.budget = @ - 1]
  /\ ListUnchanged

\* The loop body when Decode fails: nil, err is returned and the deferred
\* Close runs.
ListDecodeFails ==
  /\ list.at = "body"
  /\ list' = [list EXCEPT !.at = "returned", !.err = "decode error",
                          !.closed = TRUE]
  /\ ListUnchanged

NextList ==
  \/ Find
  \/ FindFails
  \/ LoopCondition
  \/ StreamListItem
  \/ ListDecodeFails

SpecList == InitList /\ [][NextList]_vars

(***************************************************************************)
(* PluginTables: the connection string, the allow-list and the tables      *)
(***************************************************************************)
\* MongoDBConfig.ConnectionString is a *string: nil when connection_string
\* is not set.
NilPtr == [isNil |-> TRUE]

Ptr(str) == [isNil |-> FALSE, ptr |-> str]

ConnectionStrings == {NilPtr, Ptr(""), Ptr("mongodb://config")}

\* os.Getenv("DATABASE_URL"): "" when the variable is not set.
EnvValues == {"", "mongodb://env"}

MissingConnectionString ==
  "please provide either the connection_string param or the DATABASE_URL envvar"

\* MongoDBConfig.GetConnectionString
GetConnectionString(c, env) ==
  IF ~c.isNil /\ c.ptr # "" THEN [val |-> c.ptr, err |-> NoError]
  ELSE IF env # "" THEN [val |-> env, err |-> NoError]
       ELSE [val |-> "", err |-> MissingConnectionString]

\* MongoDBConfig.GetCollectionsToExpose
GetCollectionsToExpose(patterns) ==
  IF Len(patterns) > 0 THEN patterns ELSE << <<"*">> >>

\* connect: the driver rejects a URI without a scheme.
connect(uri) == IF uri = "" THEN "error parsing uri" ELSE NoError

\* Names and patterns are sequences of characters.
RECURSIVE Match(_, _)
\* path.Match(pattern, name) for patterns made of literal characters, '?'
\* and '*': neither '?' nor '*' matches a '/'.
Match(pattern, name) ==
  IF Len(pattern) = 0 THEN Len(name) = 0
  ELSE IF Head(pattern) = "*"
       THEN \E n \in 0..Len(name) :
              /\ \A j \in 1..n : name[j] # "/"
              /\ Match(Tail(pattern), SubSeq(name, n + 1, Len(name)))
       ELSE /\ Len(name) > 0
            /\ IF Head(pattern) = "?" THEN Head(name) # "/"
               ELSE Head(name) = Head(pattern)
            /\ Match(Tail(pattern), Tail(name))

Range(q) == {q[i] : i \in DOMAIN q}

\* What tableMongoDB does for collection c before it builds the columns:
\* the configured connection string is dereferenced and connected to, then
\* the collection is sampled.  fail names the collection whose sampling
\* fails, and the error.
BuildOutcome(c, cs, fail) ==
  IF cs.isNil THEN "panic"
  ELSE IF connect(cs.ptr) # NoError THEN connect(cs.ptr)
       ELSE IF fail # None /\ fail.name = c THEN fail.err
            ELSE NoError

RECURSIVE CollectionLoop(_, _, _, _, _, _)
\* The inner loop of PluginTables from collections[ci] on.  st holds
\* tempCollectionNames, the keys of tables, the collections tableMongoDB
\* was called for, the URIs connected to, and how the function left the
\* loop, if it did.
CollectionLoop(pattern, collections, ci, st, cs, fail) ==
  IF ci > Len(collections) \/ st.out # "running" THEN st
  ELSE LET c == collections[ci] IN
       IF c \in Range(st.temp) \/ ~Match(pattern, c)
       THEN CollectionLoop(pattern, collections, ci + 1, st, cs, fail)
       ELSE LET b == BuildOutcome(c, cs, fail)
                st1 == [st EXCEPT !.temp = Append(@, c),
                                  !.built = Append(@, c)]
            IN IF b = "panic" THEN [st1 EXCEPT !.out = "panic"]
               ELSE IF b # NoError
                    THEN [st1 EXCEPT !.out = "error", !.err = b,
                                     !.uris = @ \cup {cs.ptr}]
                    ELSE CollectionLoop(pattern, collections, ci + 1,
                           [st1 EXCEPT !.tables = @ \cup {c},
                                       !.uris = @ \cup {cs.ptr}],
                           cs, fail)

RECURSIVE PatternLoop(_, _, _, _, _, _)
\* The outer loop of PluginTables from patterns[pi] on.
PatternLoop(patterns, pi, collections, st, cs, fail) ==
  IF pi > Len(patterns) \/ st.out # "running" THEN st
  ELSE PatternLoop(patterns, pi + 1, collections,
         CollectionLoop(patterns[pi], collections, 1, st, cs, fail),
         cs, fail)

\* What PluginTables returns when the table of a collection cannot be
\* built, handing back the tables built so far.
PluginReturn_PartialMap(st) ==
  IF st.out = "error"
  THEN [tablesNil |-> FALSE, tables |-> st.tables, err |-> st.err]
  ELSE [tablesNil |-> FALSE, tables |-> st.tables, err |-> NoError]

\* What PluginTables returns once it has left the loops: nil, err or
\* tables, nil.
PluginReturn(st) ==
  IF st.out = "error"
  THEN [tablesNil |-> TRUE, tables |-> {}, err |-> st.err]
  ELSE [tablesNil |-> FALSE, tables |-> st.tables, err |-> NoError]

N_a == <<"a">>

N_b == <<"b">>

N_ab == <<"a", "b">>

N_a_b == <<"a", "/", "b">>

\* client.Database(dbName).ListCollectionNames
CollectionLists ==
  {<<>>, <<N_a>>, <<N_ab, N_b>>, <<N_a, N_a_b>>, <<N_b, N_ab, N_a>>}

\* collections_to_expose; <<>> when it is not set
PatternLists ==
  {<<>>, << <<"*">> >>, << <<"a", "*">> >>, << <<"a", "*">>, <<"*", "b">> >>,
   << <<"?">> >>, << N_b, N_b >>}

\* The collection whose sampling fails, None when none does
Failures ==
  {None, [name |-> N_a, err |-> "sample error"],
   [name |-> N_b, err |-> "decode error"],
   [name |-> N_ab, err |-> "connect error"]}

InitPlugin ==
  /\ StopOnFields = {}
  /\ pc = "plugin"
  /\ GenIdle
  /\ MergeIdle /\ TypeOfIdle /\ FlattenIdle /\ QueryIdle
  /\ SampleIdle /\ mrecv = None /\ list = None
  /\ \E cs \in ConnectionStrings, env \in EnvValues, ps \in PatternLists,
        cl \in CollectionLists, f \in Failures, lf \in BOOLEAN :
       plug = [cs |-> cs, env |-> env, patterns |-> ps, collections |-> cl,
               fail |-> f, listFails |-> lf, at |-> "start",
               ret |-> [tablesNil |-> TRUE, tables |-> {}, err |-> NoError],
               built |-> <<>>, uris |-> {}]

PluginUnchanged ==
  /\ UNCHANGED genVars
  /\ UNCHANGED <<mergeVars, typeOfVars, flattenVars, queryVars, sampleVars,
                 mrecv, list>>

\* PluginTables(ctx, d)
PluginTables ==
  /\ plug.at = "start"
  /\ LET cstr == GetConnectionString(plug.cs, plug.env)
         st0 == [temp |-> <<>>, tables |-> {}, built |-> <<>>,
                 uris |-> {cstr.val}, out |-> "running", err |-> NoError]
         st == PatternLoop(GetCollectionsToExpose(plug.patterns), 1,
                           plug.collections, st0, plug.cs, plug.fail)
     IN IF cstr.err # NoError
        THEN plug' = [plug EXCEPT
               !.at = "returned",
               !.ret = [tablesNil |-> TRUE, tables |-> {}, err |-> cstr.err]]
        ELSE IF plug.listFails
             THEN plug' = [plug EXCEPT
                    !.at = "returned", !.uris = {cstr.val},
                    !.ret = [tablesNil |-> TRUE, tables |-> {},
                             err |-> "list collections error"]]
             ELSE plug' = [plug EXCEPT
                    !.at = IF st.out = "panic" THEN "panicked"
                           ELSE "returned",
                    !.ret = PluginReturn(st),
                    !.built = st.built, !.uris = st.uris]
  /\ PluginUnchanged

\* The hydrate function of the table of collection c, up to its connect:
\* the configured connection string is dereferenced.
ListConnect(c) ==
  /\ plug.at = "returned"
  /\ c \in plug.ret.tables
  /\ plug' = IF plug.cs.isNil THEN [plug EXCEPT !.at = "panicked"]
             ELSE [plug EXCEPT !.at = "listed",
                               !.uris = @ \cup {plug.cs.ptr},
                               !.ret.err = connect(plug.cs.ptr)]
  /\ PluginUnchanged

NextPlugin ==
  \/ PluginTables
  \/ \E c \in {N_a, N_b, N_ab, N_a_b} : ListConnect(c)

SpecPlugin == InitPlugin /\ [][NextPlugin]_vars

(***************************************************************************)
(* Properties                                                              *)
(***************************************************************************)
RECURSIVE Canon(_)
\* A type up to the order of the members of its MixedTypes: two types are
\* structurally equal iff their Canon is the same.
Canon(t) ==
  CASE t.tag = "Mixed" ->
         [tag |-> "Mixed", n |-> Len(t.members),
          members |-> {Canon(t.members[i]) : i \in 1..Len(t.members)}]
    [] t.tag = "Slice" -> [tag |-> "Slice", elem |-> Canon(t.elem)]
    [] t.tag = "Struct" ->
         [tag |-> "Struct",
          fields |-> [k \in DOMAIN t.fields |-> Canon(t.fields[k])]]
    [] OTHER -> t

RECURSIVE FlatNoDup(_)
\* Every MixedType in t has no MixedType member and no two structurally
\* equal members.
FlatNoDup(t) ==
  CASE t.tag = "Mixed" ->
         /\ \A i \in 1..Len(t.members) :
              /\ t.members[i].tag # "Mixed"
              /\ FlatNoDup(t.members[i])
         /\ \A i, j \in 1..Len(t.members) :
              i # j => Canon(t.members[i]) # Canon(t.members[j])
    [] t.tag = "Slice" -> FlatNoDup(t.elem)
    [] t.tag = "Struct" -> \A k \in DOMAIN t.fields : FlatNoDup(t.fields[k])
    [] OTHER -> TRUE

\* C1: after any sequence of Update calls every MixedType of the inferred
\* tree is flat (no MixedType is a direct member of a MixedType) and free
\* of structurally equal members.
C1_MixedFlatNoDup == FlatNoDup(root)

\* C2: feeding Update the document it was fed last leaves the inferred
\* type structurally unchanged (Merge is idempotent).
C2_UpdateTwiceUnchanged ==
  [][(nfed' = nfed + 1 /\ last' = last) => Canon(root') = Canon(root)]_vars

\* The members of a type seen as a MixedType: those of a MixedType, the
\* type itself otherwise.
MemberSet(t) ==
  IF t.tag = "Mixed" THEN {Canon(t.members[i]) : i \in 1..Len(t.members)}
  ELSE {Canon(t)}

\* C3: Merge is commutative up to the order of the members of a MixedType:
\* a.Merge(b) and b.Merge(a) are of the same variant and, when a MixedType,
\* have the same set of members.
C3_MergeCommutes ==
  pc = "done" /\ mres # None =>
    \A o \in OrderPairs :
      LET r == Merge(mb, ma, o) IN
        /\ r.tag = mres.tag
        /\ r.tag = "Mixed" => MemberSet(r) = MemberSet(mres)

\* C4: when Merge tests whether a StructType is already a member of a
\* MixedType, a StructType with the same field names and equal field types
\* is recognised, whatever the order its fields are enumerated in: no second
\* copy is appended.
C4_StructMemberRecognised ==
  (/\ pc = "done" /\ mres # None
   /\ ma.tag = "Mixed" /\ mb.tag = "Struct"
   /\ \E i \in 1..Len(ma.members) : ma.members[i] = mb)
  => mres = ma

\* The proper, non-empty prefixes of path q.
Prefixes(q) == {SubSeq(q, 1, i) : i \in 1..(Len(q) - 1)}

\* C5: inference only accumulates.  The fields of the root are exactly the
\* top-level fields of the documents fed so far; below a field that was a
\* sub-document in every document, the keys are exactly those the
\* documents hold; and an Update never removes a field of the root.
C5_Accumulates ==
  /\ [](/\ root.tag = "Struct"
        /\ DOMAIN root.fields = {q[1] : q \in {p \in seenKeys : Len(p) = 1}}
        /\ \A q \in seenKeys :
             (Prefixes(q) \cap seenNonDoc = {}) => q \in StructKeys(root, <<>>)
        /\ StructKeys(root, <<>>) \subseteq seenKeys)
  /\ [][DOMAIN root.fields \subseteq DOMAIN root'.fields]_vars

C5_Witness ==
  /\ nfed >= 2
  /\ {<<"a", "a">>, <<"a", "b", "a">>} \subseteq StructKeys(root, <<>>)
  /\ "a.b" \in DOMAIN root.fields

RECURSIVE ValueAt(_, _)
\* The value document v holds at path q.
ValueAt(v, q) == IF q = <<>> THEN v ELSE ValueAt(v.m[Head(q)], Tail(q))

RECURSIVE TypeAt(_, _)
\* The type StructType t holds at path q.
TypeAt(t, q) == IF q = <<>> THEN t ELSE TypeAt(t.fields[Head(q)], Tail(q))

RECURSIVE Inspects(_, _, _)
\* Typing v at stack needs the type of a value TypeOf has no case for.
Inspects(v, stack, stop) ==
  CASE v.k = "M" -> \E k \in DOMAIN v.m :
                       /\ Join(Append(stack, k)) \notin stop
                       /\ Inspects(v.m[k], Append(stack, k), stop)
    [] v.k = "A" -> \E i \in 1..Len(v.a) : Inspects(v.a[i], stack, stop)
    [] OTHER -> v = Unsupported

\* Type t is the type of value v, as far as v's own kind tells.
TypedFromContent(v, t) ==
  CASE v.k = "M" -> t.tag = "Struct" /\ DOMAIN t.fields = DOMAIN v.m
    [] v.k = "A" -> t.tag = "Slice"
    [] OTHER -> t = ScalarTypeOf(v.k)

\* C6: in the type of a document, a field whose dot-joined path is a stop
\* path is the empty StructType whatever its value, and its value is not
\* inspected (a value TypeOf cannot type does no harm there); a field of
\* the same name at a path that is no stop path is typed from its content.
C6_StopPath ==
  (pc = "done" /\ tres # None /\ tv.k = "M") =>
    /\ tres = Panic <=> Inspects(tv, <<>>, tstop)
    /\ tres # Panic =>
         \A q \in DocKeys(tv, <<>>, tstop) :
           IF Join(q) \in tstop
           THEN TypeAt(tres, q) = StructType(EmptyMap)
           ELSE TypedFromContent(ValueAt(tv, q), TypeAt(tres, q))

C6_Witness ==
  /\ pc = "done"
  /\ tstop = {"a"}
  /\ tv = DocM([a |-> DocM([a |-> Unsupported]), b |-> DocM([a |-> I32])])
  /\ tres = StructType([a |-> StructType(EmptyMap),
                        b |-> StructType([a |-> P32])])

\* The names a column below field p can have.
NamesBelow(p) ==
  {p \o "." \o Join(q) : q \in Seqs(FieldNames, 3) \ {<<>>}}

\* C7: with stop path p, once documents that all contain p were fed, the
\* column list has the column p, of type JSON, and no column whose name
\* starts with "p.".
C7_StopPathOneColumn ==
  (pc = "built" /\ nfed >= 1) =>
    \A p \in stopInAll :
      /\ p \in TableColumns(finalTypes)
      /\ finalTypes[p] = "JSON"
      /\ TableColumns(finalTypes) \cap NamesBelow(p) = {}

RECURSIVE TypeFold(_, _, _)
\* The fold by Merge of the types vts[i..] into acc.
TypeFold(vts, i, acc) ==
  IF i > Len(vts) THEN acc
  ELSE TypeFold(vts, i + 1, Merge(acc, vts[i], <<Order1, Order1>>))

\* C8: the type of a non-empty array is the SliceType of the fold, by
\* Merge, of the types of all its elements.
C8_ArrayFoldsAllElements ==
  (pc = "done" /\ tres # None /\ tres # Panic /\ tv.k = "A" /\ Len(tv.a) > 0)
  => LET vts == [i \in 1..Len(tv.a) |->
                   TypeOf(tv.a[i], <<>>, tstop, <<Order1, Order1>>)]
     IN Canon(tres) = Canon(SliceType(TypeFold(vts, 2, vts[1])))

\* C9: the type of an array of sub-documents is a SliceType of one
\* StructType whose fields are the union of the fields of all the elements,
\* and it flattens to a single JSON column.
C9_ArrayOfObjectsUnion ==
  (/\ pc = "done" /\ tres # None /\ tres # Panic
   /\ tv.k = "A" /\ Len(tv.a) > 0
   /\ \A i \in 1..Len(tv.a) : tv.a[i].k = "M")
  => /\ tres.tag = "Slice"
     /\ tres.elem.tag = "Struct"
     /\ DOMAIN tres.elem.fields =
          UNION {DOMAIN tv.a[i].m : i \in 1..Len(tv.a)}
     /\ \A ord \in Orders :
          mongoFieldToSteampipeCol("f", tres, ord) = ("f" :> "JSON")

RECURSIVE Leaves(_, _)
\* The paths, through StructTypes with a field, to the types that are not
\* a StructType with a field.
Leaves(t, stack) ==
  UNION {IF t.fields[k].tag = "Struct" /\ DOMAIN t.fields[k].fields # {}
         THEN Leaves(t.fields[k], Append(stack, k))
         ELSE {Append(stack, k)}
         : k \in DOMAIN t.fields}

\* C10: flattening recurses only into StructTypes with a field: such a
\* type gives no column of its own name, only the columns name.path of the
\* leaves below it; an empty StructType and any other type give exactly
\* the one column of the current name.
C10_FlattenRecursion ==
  pc = "done" /\ ftype # None =>
    /\ IF ftype.tag = "Struct" /\ DOMAIN ftype.fields # {}
       THEN /\ FlattenName \notin DOMAIN fcols
            /\ DOMAIN fcols =
                 {FlattenName \o "." \o Join(q) : q \in Leaves(ftype, <<>>)}
            /\ \A n \in DOMAIN fcols :
                 \E q \in Leaves(ftype, <<>>) :
                   /\ n = FlattenName \o "." \o Join(q)
                   /\ fcols[n] = getSteampipeTypeForMongoType(TypeAt(ftype, q))
       ELSE fcols = (FlattenName :> getSteampipeTypeForMongoType(ftype))
    /\ ftype = StructType([a |-> PStr, b |-> P32])
         => fcols = [n \in {"a.a", "a.b"} |->
                       IF n = "a.a" THEN "STRING" ELSE "INT"]

C10_Witness ==
  /\ pc = "done"
  /\ ftype = StructType([a |-> StructType([a |-> PStr, b |-> P32]),
                         b |-> StructType(EmptyMap)])
  /\ DOMAIN fcols = {"a.a.a", "a.a.b", "a.b"}

\* C11: a field whose type is a MixedType of exactly two members, one of
\* them NilType and the other T, gets the column type of T alone; every
\* other MixedType gets a JSON column.
C11_NullableCollapses ==
  pc = "done" /\ ftype # None /\ ftype.tag = "Mixed" =>
    LET ms == ftype.members
        nils == {i \in DOMAIN ms : ms[i] = NilType}
    IN IF Len(ms) = 2 /\ Cardinality(nils) = 1
       THEN LET T == ms[CHOOSE i \in DOMAIN ms : i \notin nils]
            IN fcols = mongoFieldToSteampipeCol(FlattenName, T, Order1)
       ELSE fcols = (FlattenName :> "JSON")

\* The names of the elements of a list of columns or of key columns
NamesOf(l) == {l[i].Name : i \in DOMAIN l}

\* C12: in a table tableMongoDB builds, a column of type UNKNOWN is neither
\* among the columns nor among the key columns, every other column of the
\* flattened type is a column of the table, once and with its type, and
\* every column of the table has exactly one key column, which is optional
\* and accepts the operators of the plugin.
C12_UnknownDropped ==
  pc = "table" =>
    LET known == {n \in DOMAIN finalTypes : finalTypes[n] # "UNKNOWN"}
    IN /\ NamesOf(table.Columns) = known
       /\ NamesOf(table.KeyColumns) = known
       /\ Len(table.Columns) = Cardinality(known)
       /\ \A i \in DOMAIN table.Columns :
            /\ table.Columns[i].Type = finalTypes[table.Columns[i].Name]
            /\ Cardinality({j \in DOMAIN table.KeyColumns :
                              table.KeyColumns[j].Name
                                = table.Columns[i].Name}) = 1
       /\ \A j \in DOMAIN table.KeyColumns :
            /\ table.KeyColumns[j].Require = "optional"
            /\ table.KeyColumns[j].Operators = ValidOperators

C12_Witness ==
  /\ pc = "table"
  /\ \E n \in DOMAIN finalTypes : finalTypes[n] = "UNKNOWN"
  /\ Len(table.Columns) = 2
  /\ Len(table.KeyColumns) = 2

\* C13: a regular-expression field is a JSON column, and a Regex value is
\* coerced, without an error, to a structured value that holds the pattern
\* and the flags as two parts, so two Regex values that differ in their
\* flags are coerced to different results.
C13_RegexKeepsFlags ==
  pc = "done" /\ cval # None /\ cval.k = "Regex" =>
    /\ getSteampipeTypeForMongoType(ScalarTypeOf("Regex")) = "JSON"
    /\ cres.err = NoError
    /\ cres.val.k \notin {"string", "nil"}
    /\ \A r \in RegexValues :
         r # cval => mongoTransformFunction(r) # cres

\* The Go value of the literal a QualValue holds; a timestamp is the
\* instant, a list the list of its texts.
LiteralOf(q) ==
  CASE q.kind = "string" -> GoString(q.v)
    [] q.kind = "int64" -> [k |-> "int64", v |-> q.v]
    [] q.kind = "double" -> GoFloat(q.v)
    [] q.kind = "bool" -> [k |-> "bool", v |-> q.v]
    [] q.kind = "timestamp" -> GoTime(q.v, 0)
    [] q.kind = "list"
         -> [k |-> "list", a |-> [i \in DOMAIN q.v |-> GoString(q.v[i].v)]]

\* primitive.ObjectIDFromHex: the identifier whose Hex() is the text
ObjectIDFromHex(str) ==
  IF \E b \in {OID1, OID2} : Hex(b) = str
  THEN [val |-> [k |-> "ObjectID",
                 bytes |-> CHOOSE b \in {OID1, OID2} : Hex(b) = str],
        err |-> NoError]
  ELSE [val |-> GoNil, err |-> "ErrInvalidHex"]

\* The native clause of an operator on an operand
NativeClause(op, x) ==
  CASE op = "=" -> ("$eq" :> x)
    [] op = "<>" -> ("$ne" :> x)
    [] op = ">" -> ("$gt" :> x)
    [] op = "<" -> ("$lt" :> x)
    [] op = ">=" -> ("$gte" :> x)
    [] op = "<=" -> ("$lte" :> x)
    [] op = "is null" -> ("$eq" :> GoNil)
    [] op = "is not null" -> ("$ne" :> GoNil)
    [] op = "~" -> ("$regex" :> x)
    [] op = "~*" -> ("$regex" :> x @@ "$options" :> GoString("i"))
    [] op = "!~" -> ("$not" :> ("$regex" :> x))
    [] op = "!~*"
         -> ("$not" :> ("$regex" :> x @@ "$options" :> GoString("i")))
    [] op = "?" -> ("$eq" :> x)
    [] op = "?|" -> ("$in" :> x)
    [] op = "?&" -> ("$all" :> x)

ComparisonOperators == {"=", "<>", ">", "<", ">=", "<="}
NullOperators == {"is null", "is not null"}
RegexOperators == {"~", "~*", "!~", "!~*"}

\* The call has compiled a query of one predicate.
OnePredicate ==
  /\ pc = "done" /\ inputQuals # None
  /\ Cardinality(DOMAIN inputQuals) = 1
  /\ \A c \in DOMAIN inputQuals : Len(inputQuals[c]) = 1

ThePredicate == inputQuals[CHOOSE c \in DOMAIN inputQuals : TRUE][1]

\* The type, in the inferred type of the collection, of a column's path
OriginalType(colName) ==
  TypeAt(FilterTypeMap,
         CHOOSE q \in Leaves(FilterTypeMap, <<>>) : Join(q) = colName)

\* C15: a predicate with a comparison, null-test or regex operator
\* compiles to one clause on its column, with the native operator of the
\* table on the predicate's literal (the text, or the identifier it
\* denotes, for an object-identifier column); the null tests compare with
\* null whatever the literal.
C15_NativeOperators ==
  OnePredicate
  /\ ThePredicate.Operator
       \in ComparisonOperators \cup NullOperators \cup RegexOperators
  => LET p == ThePredicate
         operands ==
           {LiteralOf(p.Value)}
           \cup IF OriginalType(p.Column)
                     = PrimitiveType("PrimitiveObjectId")
                THEN {ObjectIDFromHex(p.Value.v).val}
                ELSE {}
     IN /\ Len(filter) = 1
        /\ filter[1].Key = p.Column
        /\ \E x \in operands :
             filter[1].Value = NativeClause(p.Operator, x)

\* The predicates of column c that have a native equivalent, in the
\* order of the query, and the elements of the filter with the key c
Translatable(c) ==
  LET Test(p) == p.Operator \in TranslatedOperators
  IN SelectSeq(inputQuals[c], Test)

ElementsFor(c) ==
  LET Test(e) == e.Key = c
  IN SelectSeq(filter, Test)

\* C16: a predicate whose operator has no native equivalent adds nothing
\* to the filter: the filter has as many elements for a column as the
\* column has translatable predicates, none for another column, and no
\* element without a clause.
C16_UntranslatableOmitted ==
  pc = "done" /\ inputQuals # None =>
    /\ \A c \in DOMAIN inputQuals :
         Len(ElementsFor(c)) = Len(Translatable(c))
    /\ \A i \in DOMAIN filter :
         filter[i].Key \in DOMAIN inputQuals /\ filter[i].Value # NilM

\* C17: the text literal of a predicate on a column whose original type is
\* the object identifier is parsed, and the clause compares with the
\* 12-byte identifier; on a text column of another original type the
\* clause compares with the text as read.
C17_ObjectIdParsed ==
  OnePredicate
  /\ ThePredicate.Operator \in ComparisonOperators
  /\ ThePredicate.Value.kind = "string"
  /\ ObjectIDFromHex(ThePredicate.Value.v).err = NoError
  => LET p == ThePredicate
     IN /\ Len(filter) = 1
        /\ filter[1].Key = p.Column
        /\ filter[1].Value =
             NativeClause(p.Operator,
               IF OriginalType(p.Column) = PrimitiveType("PrimitiveObjectId")
               THEN ObjectIDFromHex(p.Value.v).val
               ELSE LiteralOf(p.Value))

\* C18: the clause of a comparison on a TIMESTAMP column has the
\* predicate's instant as its operand, as the clause of a comparison on a
\* BOOL, INT, DOUBLE or text column has the predicate's typed literal.
C18_TimestampLiteral ==
  OnePredicate
  /\ ThePredicate.Operator \in ComparisonOperators
  /\ ThePredicate.Value.kind
       \in {"timestamp", "bool", "int64", "double"}
  => LET p == ThePredicate
     IN /\ Len(filter) = 1
        /\ filter[1].Key = p.Column
        /\ filter[1].Value = NativeClause(p.Operator, LiteralOf(p.Value))

\* C19: column ?& array[e1, ..., en] compiles to $all with the list of
\* the n elements, column ?| array[...] to $in with the list, and
\* column ? e to $eq with the text e.
C19_SetOperators ==
  OnePredicate /\ ThePredicate.Operator \in {"?", "?|", "?&"}
  => LET p == ThePredicate
     IN /\ Len(filter) = 1
        /\ filter[1].Key = p.Column
        /\ filter[1].Value = NativeClause(p.Operator, LiteralOf(p.Value))
        /\ p.Operator \in {"?|", "?&"}
             => Len(filter[1].Value[IF p.Operator = "?&" THEN "$all"
                                    ELSE "$in"].a) = Len(p.Value.v)

\* C20: the filter is the conjunction of the translatable predicates: for
\* every column its elements are, in the order of the query, the clauses
\* of the column's translatable predicates, one each with the native
\* operator of the predicate, and the filter has no other element.
C20_Conjunction ==
  pc = "done" /\ inputQuals # None =>
    /\ \A i \in DOMAIN filter : filter[i].Key \in DOMAIN inputQuals
    /\ \A c \in DOMAIN inputQuals :
         /\ Len(ElementsFor(c)) = Len(Translatable(c))
         /\ \A i \in DOMAIN ElementsFor(c) :
              i \in DOMAIN Translatable(c) =>
                DOMAIN ElementsFor(c)[i].Value
                  = DOMAIN NativeClause(Translatable(c)[i].Operator, GoNil)

\* C25: merging two Sequence types yields a single Sequence, whatever the
\* two element types are, never a Mixed of the two Sequences.
C25_SliceMergeIsSlice ==
  pc = "done" /\ ma.tag = "Slice" /\ mb.tag = "Slice"
  => /\ mres.tag = "Slice"
     /\ mres # MixedType(<<ma, mb>>)

\* Number of StructTypes an element type holds.
StructsIn(e) ==
  CASE e.tag = "Struct" -> 1
    [] e.tag = "Mixed" ->
         Cardinality({i \in DOMAIN e.members : e.members[i].tag = "Struct"})
    [] OTHER -> 0

RECURSIVE OneStructPerSlice(_)
\* Every SliceType inside t has an element type of at most one StructType.
OneStructPerSlice(t) ==
  CASE t.tag = "Slice" -> StructsIn(t.elem) <= 1 /\ OneStructPerSlice(t.elem)
    [] t.tag = "Struct" ->
         \A k \in DOMAIN t.fields : OneStructPerSlice(t.fields[k])
    [] t.tag = "Mixed" ->
         \A i \in DOMAIN t.members : OneStructPerSlice(t.members[i])
    [] OTHER -> TRUE

C27_MergeIsPure ==
  pc = "done" /\ mres # None /\ ma # None => mrecv = ma

\* C23: when getFieldTypesForCollection has read the sample, Update has
\* been called with at most sample_size documents if sample_size > 0, and
\* with every document of the collection if sample_size = 0, so that every
\* field of a document of the collection is then a field of the type.
C23_SampleSizeBoundsSample ==
  pc = "built" /\ fed # None
  => /\ sampleSize > 0 => nfed <= sampleSize
     /\ sampleSize = 0
        => /\ fed = coll
           /\ \A i \in DOMAIN SampleDocs :
                coll[i] > 0 => DOMAIN SampleDocs[i].m \subseteq DOMAIN root.fields

RECURSIVE InferBag(_, _, _)
\* The root of a Generator fed the documents of bag b from root r on, in
\* the order of SampleDocs.
InferBag(b, i, r) ==
  IF i > Len(SampleDocs) THEN r
  ELSE IF b[i] = 0 THEN InferBag(b, i + 1, r)
       ELSE InferBag([b EXCEPT ![i] = @ - 1], i,
                     StructMerge(r, TypeOf(SampleDocs[i], <<>>, {},
                                           <<Order1, Order1>>),
                                 <<Order1, Order1>>))

\* C28: the column names and column types flattened from the documents
\* fed to Update, in whatever order they were fed, are those flattened
\* from the same documents fed in the order of SampleDocs.
C28_ColumnsIgnoreFeedOrder ==
  pc = "built" /\ fed # None
  => \A ord \in Orders :
       finalTypes
         = FinalTypes(InferBag(fed, 1, StructType(EmptyMap)).fields, ord,
                      Len(ord))

\* Documents have been fed in an order that gives another type than the
\* order of SampleDocs does, and the type has a column.
C28_Witness ==
  /\ pc = "built" /\ fed # None
  /\ nfed >= 2
  /\ root # InferBag(fed, 1, StructType(EmptyMap))
  /\ DOMAIN finalTypes # {}

\* C29: the transform of a column of the table never fails on the value a
\* sampled document holds in the column's field.
C29_RetainedColumnsCoerce ==
  pc = "coerced" /\ fed # None => cres.err = NoError

\* C21: in the list loop no document is fetched from the cursor while the
\* budget is zero, the rows streamed never exceed the initial budget, and
\* when the function has returned after opening the cursor, the cursor is
\* closed.
C21_ListLoopStopsAtBudget ==
  list # None
  => /\ ~list.requestedAtZero
     /\ list.streamed <= list.initial
     /\ list.at = "returned" /\ list.opened => list.closed

\* The collections of the store that match a pattern of the allow-list.
Exposed ==
  {c \in Range(plug.collections) :
     \E i \in DOMAIN GetCollectionsToExpose(plug.patterns) :
       Match(GetCollectionsToExpose(plug.patterns)[i], c)}

\* C22: when PluginTables returns without an error its tables are those
\* of the collections that match a pattern of collections_to_expose, each
\* built once, and those of all the collections when collections_to_expose
\* is not set.
C22_AllowList ==
  plug # None /\ plug.at = "returned" /\ plug.ret.err = NoError
  => /\ ~plug.ret.tablesNil
     /\ plug.ret.tables = Exposed
     /\ \A i, j \in DOMAIN plug.built :
          plug.built[i] = plug.built[j] => i = j
     /\ plug.patterns = <<>> => plug.ret.tables = Range(plug.collections)

\* C24: when connection_string is not set and DATABASE_URL is, no step
\* that connects panics or fails for want of a connection string and every
\* connection is made to the DATABASE_URL value; the error of the missing
\* connection string is returned only when both are absent.
C24_DatabaseUrlFallback ==
  plug # None
  => /\ plug.cs.isNil /\ plug.env # ""
        => /\ plug.at # "panicked"
           /\ plug.ret.err \notin {MissingConnectionString, "error parsing uri"}
           /\ plug.at # "start" => plug.uris = {plug.env}
     /\ plug.ret.err = MissingConnectionString
        => (plug.cs.isNil \/ plug.cs.ptr = "") /\ plug.env = ""

\* C30: what PluginTables returns is either the tables of all the
\* collections that match the allow-list and no error, or an error and no
\* table map.
C30_AllOrNothing ==
  plug # None /\ plug.at = "returned"
  => \/ /\ plug.ret.err = NoError
        /\ ~plug.ret.tablesNil
        /\ plug.ret.tables = Exposed
     \/ /\ plug.ret.err # NoError
        /\ plug.ret.tablesNil
        /\ plug.ret.tables = {}

\* PluginTables has returned an error after the table of a collection
\* had been built and that of a later one could not be.
C30_Witness ==
  /\ plug # None /\ plug.at = "returned"
  /\ plug.ret.err = "sample error"
  /\ Len(plug.built) = 3
  /\ plug.ret.tablesNil

====
